---- MODULE Spec2Model ----
(***************************************************************************)
(* SSD1306 OLED driver (python_ssd1306/state.py): the base class _SSD1306  *)
(* and its I2C transport SSD1306_I2C, as a state machine.  One action per  *)
(* public method; every bus write and every drive of the reset line is     *)
(* appended to `trace` in program order.  A bus write may raise (the smbus *)
(* call fails): the method then stops at that write and the exception      *)
(* reaches the caller (`err`).                                             *)
(***************************************************************************)
EXTENDS Integers, Sequences, FiniteSets

(* ------------------------------------------------------------------ *)
(* Bounds of the exploration                                          *)
(* ------------------------------------------------------------------ *)
\* method calls made on a constructed driver
MaxOps == 2
\* calls made on a constructed driver of a full-size panel
MaxPanelOps == 1
\* on a full-size panel a failing write is the k-th write of its method,
\* k <= MaxFailPoint, or the last one
MaxFailPoint == 7
\* geometries with both sides up to SmallDim have every failing write enumerated
SmallDim == 16
\* geometries of up to DensePixels pixels have every pixel enumerated
DensePixels == 32
\* geometries of up to TinyPixels pixels have every contrast value enumerated
TinyPixels == 8

(* ------------------------------------------------------------------ *)
(* Command bytes, state.py:9-25                                       *)
(* ------------------------------------------------------------------ *)
SET_CONTRAST == 129
SET_ENTIRE_ON == 164
SET_NORM_INV == 166
SET_DISP == 174
SET_MEM_ADDR == 32
SET_COL_ADDR == 33
SET_PAGE_ADDR == 34
SET_DISP_START_LINE == 64
SET_SEG_REMAP == 160
SET_MUX_RATIO == 168
SET_COM_OUT_DIR == 192
SET_DISP_OFFSET == 211
SET_COM_PIN_CFG == 218
SET_DISP_CLK_DIV == 213
SET_PRECHARGE == 217
SET_VCOM_DESEL == 219
SET_CHARGE_PUMP == 141

(* ------------------------------------------------------------------ *)
(* Integer bit operations of the source (|, &), on non-negative ints  *)
(* ------------------------------------------------------------------ *)
Pow2(k) == 2 ^ k

BitAt(v, k) == (v \div Pow2(k)) % 2

RECURSIVE BitOrFrom(_, _, _)
BitOrFrom(a, b, k) ==
    IF a \div Pow2(k) = 0 /\ b \div Pow2(k) = 0 THEN 0
    ELSE (IF BitAt(a, k) = 1 \/ BitAt(b, k) = 1 THEN Pow2(k) ELSE 0)
         + BitOrFrom(a, b, k + 1)

BitOr(a, b) == BitOrFrom(a, b, 0)

RECURSIVE BitAndFrom(_, _, _)
BitAndFrom(a, b, k) ==
    IF a \div Pow2(k) = 0 \/ b \div Pow2(k) = 0 THEN 0
    ELSE (IF BitAt(a, k) = 1 /\ BitAt(b, k) = 1 THEN Pow2(k) ELSE 0)
         + BitAndFrom(a, b, k + 1)

BitAnd(a, b) == BitAndFrom(a, b, 0)

(* ------------------------------------------------------------------ *)
(* State                                                              *)
(* ------------------------------------------------------------------ *)
VARIABLES
    width,          \* self.width
    height,         \* self.height
    external_vcc,   \* self.external_vcc
    reset_pin,      \* TRUE iff a reset line was passed (self.reset_pin truthy)
    pages,          \* self.pages
    _power,         \* self._power
    buffer,         \* self.buffer: framing byte, then the pixel bytes
    trace,          \* what the hardware saw: bus writes and reset-line levels
    phase,          \* "new": constructor not run; "ready"; "dead": constructor raised
    op,             \* the method called last
    err,            \* TRUE iff that call raised
    args,           \* its arguments
    nops,           \* calls made on the constructed driver
    faults          \* bus writes that have failed

vars == <<width, height, external_vcc, reset_pin, pages, _power, buffer,
          trace, phase, op, args, err, nops, faults>>

config == <<width, height, external_vcc, reset_pin, pages>>

(* ------------------------------------------------------------------ *)
(* Transport, SSD1306_I2C                                             *)
(* ------------------------------------------------------------------ *)
\* self.reset_pin.value = v (and switch_to_output(value=v))
pin_event(v) == <<"pin", v>>

\* write_cmd: i2c.write_byte_data(addr, 0x80, cmd)
write_cmd(cmd) == <<"i2c", 128, cmd>>

\* mutant: the slice starts one byte late, self.buffer[2:]
PixelBytes_late(buf) == SubSeq(buf, 3, Len(buf))

\* the slice self.buffer[1:] (TLA+ sequences count from 1)
PixelBytes(buf) == SubSeq(buf, 2, Len(buf))

\* mutant: the framing byte buffer[0] is streamed with the pixels
write_framebuf_all(buf) == [k \in 1..Len(buf) |-> <<"i2c", 64, buf[k]>>]

\* write_framebuf: one write_byte_data(addr, 0x40, i) per byte of buffer[1:]
write_framebuf(buf) ==
    [k \in 1..Len(PixelBytes(buf)) |-> <<"i2c", 64, PixelBytes(buf)[k]>>]

\* mutant: no room for the framing byte
NewBuffer_short(w, h) == [i \in 1..((h \div 8) * w) |-> IF i = 1 THEN 64 ELSE 0]

\* mutant: buffer[0] is left as bytearray() made it
NewBuffer_noframe(w, h) == [i \in 1..(((h \div 8) * w) + 1) |-> 0]

\* bytearray(((height // 8) * width) + 1) with buffer[0] = 0x40
NewBuffer(w, h) == [i \in 1..(((h \div 8) * w) + 1) |-> IF i = 1 THEN 64 ELSE 0]

Cmds(bytes) == [k \in 1..Len(bytes) |-> write_cmd(bytes[k])]

IsI2C(e) == e[1] = "i2c"

\* the bus writes of a trace, reset-line events dropped
I2C(t) == SelectSeq(t, IsI2C)

\* mutant: the failing write is skipped and the method carries on
Attempt_skip(pins, writes, f) ==
    pins \o (IF f = 0 THEN writes
             ELSE SubSeq(writes, 1, f - 1) \o SubSeq(writes, f + 1, Len(writes)))

(* A method's run: its reset-line events (all of them come before its     *)
(* first bus write), then its bus writes.  f = 0: every write succeeds;   *)
(* f = k > 0: the k-th write raises and nothing after it is issued.       *)
Attempt(pins, writes, f) ==
    pins \o (IF f = 0 THEN writes ELSE SubSeq(writes, 1, f - 1))

(* The writes of a method that may fail in this state.  One run has at     *)
(* most one failing bus write; the caller may go on calling afterwards.   *)
Small == width <= SmallDim /\ height <= SmallDim

FailPoints(n) ==
    IF faults = 0
    THEN {k \in 1..n : Small \/ k <= MaxFailPoint \/ k = n}
    ELSE {}

Outcomes(n) == {0} \cup FailPoints(n)

(* ------------------------------------------------------------------ *)
(* framebuf.FrameBuffer over memoryview(self.buffer)[1:]              *)
(* ------------------------------------------------------------------ *)
\* mutant: the FrameBuffer is handed the whole bytearray
view_index_whole(i) == i

\* index in self.buffer (from 0) of byte i of the view handed to FrameBuffer
view_index(i) == i + 1

\* byte of the view holding pixel (x, y): (y // 8) * width + x
fb_index(w, x, y) == (y \div 8) * w + x

\* pixel(x, y): bit y % 8 of that byte
fb_get(buf, w, x, y) == BitAt(buf[view_index(fb_index(w, x, y)) + 1], y % 8)

\* pixel(x, y, c): set or clear that bit
fb_set(buf, w, x, y, c) ==
    LET i == view_index(fb_index(w, x, y)) + 1
        b == buf[i]
        m == Pow2(y % 8)
    IN  [buf EXCEPT ![i] = IF c # 0
                           THEN (IF BitAt(b, y % 8) = 1 THEN b ELSE b + m)
                           ELSE (IF BitAt(b, y % 8) = 1 THEN b - m ELSE b)]

\* fill(c): every byte of the view becomes 0x00 or 0xFF
fb_fill(buf, c) ==
    [i \in 1..Len(buf) |->
        IF i < view_index(0) + 1 THEN buf[i] ELSE IF c # 0 THEN 255 ELSE 0]

(* ------------------------------------------------------------------ *)
(* _SSD1306: the byte sequences of its methods                        *)
(* ------------------------------------------------------------------ *)
\* the tuple init_display iterates over
init_tuple(h, vcc) ==
    << BitOr(SET_DISP, 0),
       SET_MEM_ADDR,
       0,
       BitOr(SET_DISP_START_LINE, 0),
       BitOr(SET_SEG_REMAP, 1),
       SET_MUX_RATIO,
       h - 1,
       BitOr(SET_COM_OUT_DIR, 8),
       SET_DISP_OFFSET,
       0,
       SET_COM_PIN_CFG,
       IF h = 32 \/ h = 16 THEN 2 ELSE 18,
       SET_DISP_CLK_DIV,
       128,
       SET_PRECHARGE,
       IF vcc THEN 34 ELSE 241,
       SET_VCOM_DESEL,
       48,
       SET_CONTRAST,
       255,
       SET_ENTIRE_ON,
       SET_NORM_INV,
       SET_CHARGE_PUMP,
       IF vcc THEN 16 ELSE 20,
       BitOr(SET_DISP, 1) >>

\* mutant: the two width-72 commands are forgotten
init_cmds_no72(w, h, vcc) == init_tuple(h, vcc)

\* init_display's bus commands: the tuple, then the two width-72 commands
init_cmds(w, h, vcc) ==
    init_tuple(h, vcc) \o (IF w = 72 THEN <<173, 48>> ELSE <<>>)

\* xpos0 of show
xpos0(w) == 0 + (IF w = 64 THEN 32 ELSE 0) + (IF w = 72 THEN 28 ELSE 0)

\* mutant: the width-72 shift is applied to xpos0 only
xpos1_no72(w) == (w - 1) + (IF w = 64 THEN 32 ELSE 0)

\* xpos1 of show
xpos1(w) == (w - 1) + (IF w = 64 THEN 32 ELSE 0) + (IF w = 72 THEN 28 ELSE 0)

\* the six write_cmd arguments of show
show_cmds(w, pg) == <<SET_COL_ADDR, xpos0(w), xpos1(w), SET_PAGE_ADDR, 0, pg - 1>>

\* show: the window commands, then write_framebuf
show_writes(w, pg, buf) == Cmds(show_cmds(w, pg)) \o write_framebuf(buf)

\* init_display: its commands, fill(0), show
init_display_writes(w, h, pg, vcc, buf) ==
    Cmds(init_cmds(w, h, vcc)) \o show_writes(w, pg, fb_fill(buf, 0))

\* mutant: the pulse ends with the reset line still low
poweron_pins_low(rst) == IF rst THEN <<pin_event(1), pin_event(0)>> ELSE <<>>

\* poweron: the reset pulse when a reset line exists
poweron_pins(rst) ==
    IF rst THEN <<pin_event(1), pin_event(0), pin_event(1)>> ELSE <<>>

\* mutant: poweron sends display off
poweron_writes_off == <<write_cmd(BitOr(SET_DISP, 0))>>

\* poweron: write_cmd(SET_DISP | 0x01)
poweron_writes == <<write_cmd(BitOr(SET_DISP, 1))>>

\* mutant: poweroff sends display on
poweroff_writes_on == <<write_cmd(BitOr(SET_DISP, 1))>>

\* poweroff: write_cmd(SET_DISP | 0x00)
poweroff_writes == <<write_cmd(BitOr(SET_DISP, 0))>>

\* mutant: the contrast value is cut to seven bits
contrast_writes_7bit(v) == <<write_cmd(SET_CONTRAST), write_cmd(v % 128)>>

\* contrast: write_cmd(SET_CONTRAST); write_cmd(contrast)
contrast_writes(v) == <<write_cmd(SET_CONTRAST), write_cmd(v)>>

\* mutant: the argument is not masked to its lowest bit
invert_writes_nomask(i) == <<write_cmd(BitOr(SET_NORM_INV, i))>>

\* invert: write_cmd(SET_NORM_INV | (invert & 1))
invert_writes(i) == <<write_cmd(BitOr(SET_NORM_INV, BitAnd(i, 1)))>>

\* the power property
power == _power

\* mutant: poweroff leaves the flag set
power_after_poweroff_stuck == TRUE

\* self._power after poweroff's write
power_after_poweroff == FALSE

\* self._power after poweron's write
power_after_poweron == TRUE

\* mutant: the constructor swallows the exception and returns the driver
construct_phase_swallow(f) == "ready"

\* the constructor returns the driver, or raises and returns none
construct_phase(f) == IF f = 0 THEN "ready" ELSE "dead"

(* ------------------------------------------------------------------ *)
(* Inputs                                                             *)
(* ------------------------------------------------------------------ *)
\* small geometries: every failing write is enumerated
SmallGeometries == { <<3, 16>>, <<5, 8>> }

\* a geometry small enough to enumerate every pixel
DenseGeometries == { <<2, 16>> }

\* the smallest geometry: one byte of pixels
TinyGeometries == { <<1, 8>> }

\* sizes with a height that is no multiple of 8, beside the small ones
AnyGeometries == SmallGeometries \cup { <<3, 12>> }

\* the panels the driver is used with
Panels == { <<128, 64>>, <<128, 32>>, <<96, 16>>, <<64, 48>>, <<72, 40>> }

Dense == width * height <= DensePixels

Xs == IF Dense THEN 0..(width - 1) ELSE {0, width - 1}

Ys == IF Dense THEN 0..(height - 1) ELSE {0, height - 1}

Colors == {0, 1}

Tiny == width * height <= TinyPixels

\* every byte value on the last call of a run on the smallest geometry
ContrastValues == IF Tiny /\ nops + 1 = MaxOps THEN 0..255 ELSE {0, 128, 255}

InvertValues == {0, 1, 2, 8}

(* ------------------------------------------------------------------ *)
(* Initial states: the constructor's arguments are bound, the fields  *)
(* set before the first bus write hold (state.py:159-167, 33-42)      *)
(* ------------------------------------------------------------------ *)
InitWith(geoms, vccs, resets) ==
    /\ \E g \in geoms : /\ width = g[1]
                        /\ height = g[2]
                        /\ pages = g[2] \div 8
                        /\ buffer = NewBuffer(g[1], g[2])
    /\ external_vcc \in vccs
    /\ reset_pin \in resets
    /\ _power = FALSE
    /\ trace = <<>>
    /\ phase = "new"
    /\ op = "none"
    /\ args = <<>>
    /\ err = FALSE
    /\ nops = 0
    /\ faults = 0

Init == InitWith(SmallGeometries, BOOLEAN, BOOLEAN)

InitPanels == InitWith(Panels, BOOLEAN, BOOLEAN)

\* the constructor's defaults: external_vcc=False, reset=None
InitPixels == InitWith(DenseGeometries, {FALSE}, {FALSE})

InitContrast == InitWith(TinyGeometries, {FALSE}, {FALSE})

InitAny == InitWith(AnyGeometries, BOOLEAN, BOOLEAN)

(* ------------------------------------------------------------------ *)
(* Actions                                                            *)
(* ------------------------------------------------------------------ *)
\* bookkeeping of a call on the constructed driver
Called(name, a, f) ==
    /\ op' = name
    /\ args' = a
    /\ err' = (f # 0)
    /\ nops' = nops + 1
    /\ faults' = faults + (IF f # 0 THEN 1 ELSE 0)

Ready == phase = "ready" /\ nops < (IF Small THEN MaxOps ELSE MaxPanelOps)

\* SSD1306_I2C.__init__ / _SSD1306.__init__: reset line low, poweron, init_display
Construct ==
    /\ phase = "new"
    /\ LET pins == IF reset_pin
                   THEN <<pin_event(0)>> \o poweron_pins(reset_pin)
                   ELSE <<>>
           iw == init_display_writes(width, height, pages, external_vcc, buffer)
           writes == poweron_writes \o iw
           ncmd == Len(poweron_writes) + Len(init_cmds(width, height, external_vcc))
       IN \E f \in Outcomes(Len(writes)) :
            /\ trace' = trace \o Attempt(pins, writes, f)
            /\ _power' = IF f = 0 \/ f > Len(poweron_writes)
                         THEN power_after_poweron
                         ELSE FALSE
            /\ buffer' = IF f = 0 \/ f > ncmd THEN fb_fill(buffer, 0) ELSE buffer
            /\ phase' = construct_phase(f)
            /\ op' = "construct"
            /\ args' = <<>>
            /\ err' = (f # 0)
            /\ faults' = faults + (IF f # 0 THEN 1 ELSE 0)
    /\ UNCHANGED <<config, nops>>

init_display ==
    /\ Ready
    /\ LET writes == init_display_writes(width, height, pages, external_vcc, buffer)
           ncmd == Len(init_cmds(width, height, external_vcc))
       IN \E f \in Outcomes(Len(writes)) :
            /\ trace' = trace \o Attempt(<<>>, writes, f)
            /\ buffer' = IF f = 0 \/ f > ncmd THEN fb_fill(buffer, 0) ELSE buffer
            /\ Called("init_display", <<>>, f)
    /\ UNCHANGED <<config, _power, phase>>

poweroff ==
    /\ Ready
    /\ \E f \in Outcomes(Len(poweroff_writes)) :
            /\ trace' = trace \o Attempt(<<>>, poweroff_writes, f)
            /\ _power' = IF f = 0 THEN power_after_poweroff ELSE _power
            /\ Called("poweroff", <<>>, f)
    /\ UNCHANGED <<config, buffer, phase>>

poweron ==
    /\ Ready
    /\ \E f \in Outcomes(Len(poweron_writes)) :
            /\ trace' = trace \o Attempt(poweron_pins(reset_pin), poweron_writes, f)
            /\ _power' = IF f = 0 THEN power_after_poweron ELSE _power
            /\ Called("poweron", <<>>, f)
    /\ UNCHANGED <<config, buffer, phase>>

contrast ==
    /\ Ready
    /\ \E v \in ContrastValues : \E f \in Outcomes(Len(contrast_writes(v))) :
            /\ trace' = trace \o Attempt(<<>>, contrast_writes(v), f)
            /\ Called("contrast", <<v>>, f)
    /\ UNCHANGED <<config, _power, buffer, phase>>

invert ==
    /\ Ready
    /\ \E i \in InvertValues : \E f \in Outcomes(Len(invert_writes(i))) :
            /\ trace' = trace \o Attempt(<<>>, invert_writes(i), f)
            /\ Called("invert", <<i>>, f)
    /\ UNCHANGED <<config, _power, buffer, phase>>

show ==
    /\ Ready
    /\ LET writes == show_writes(width, pages, buffer)
       IN \E f \in Outcomes(Len(writes)) :
            /\ trace' = trace \o Attempt(<<>>, writes, f)
            /\ Called("show", <<>>, f)
    /\ UNCHANGED <<config, _power, buffer, phase>>

\* FrameBuffer.pixel(x, y, c)
pixel_set ==
    /\ Ready
    /\ \E x \in Xs : \E y \in Ys : \E c \in Colors :
            /\ buffer' = fb_set(buffer, width, x, y, c)
            /\ Called("pixel_set", <<x, y, c>>, 0)
    /\ UNCHANGED <<config, _power, trace, phase>>

\* FrameBuffer.pixel(x, y): a read, no state changes
pixel(x, y) == fb_get(buffer, width, x, y)

\* FrameBuffer.fill(c)
fill ==
    /\ Ready
    /\ \E c \in Colors :
            /\ buffer' = fb_fill(buffer, c)
            /\ Called("fill", <<c>>, 0)
    /\ UNCHANGED <<config, _power, trace, phase>>

Next ==
    \/ Construct
    \/ init_display
    \/ poweroff
    \/ poweron
    \/ contrast
    \/ invert
    \/ show
    \/ pixel_set
    \/ fill

\* drawing only: pixels, fill and show
NextPixels ==
    \/ Construct
    \/ show
    \/ pixel_set
    \/ fill

Spec == Init /\ [][Next]_vars

SpecPanels == InitPanels /\ [][Next]_vars

SpecPixels == InitPixels /\ [][NextPixels]_vars

\* contrast, after poweroff or fill
NextContrast ==
    \/ Construct
    \/ contrast
    \/ poweroff
    \/ fill

SpecContrast == InitContrast /\ [][NextContrast]_vars

\* the constructor alone, on any width and height
SpecConstruct == InitAny /\ [][Construct]_vars

(* ------------------------------------------------------------------ *)
(* Properties                                                         *)
(* ------------------------------------------------------------------ *)
\* what a step appended to the trace, and its bus writes
Delta == SubSeq(trace', Len(trace) + 1, Len(trace'))

BusDelta == I2C(Delta)

\* the step is a call of the method `name` on the constructed driver
Calls(name) == nops' = nops + 1 /\ op' = name

\* the step is the constructor
Constructs == phase = "new" /\ phase' # "new"

IsCommand(e) == e[1] = "i2c" /\ e[2] = 128

IsData(e) == e[1] = "i2c" /\ e[2] = 64

\* the initialisation bytes as the specification lists them
ListedInit(w, h, vcc) ==
    <<174, 32, 0, 64, 161, 168, h - 1, 200, 211, 0, 218,
      IF h \in {16, 32} THEN 2 ELSE 18,
      213, 128, 217, IF vcc THEN 34 ELSE 241, 219, 48, 129, 255, 164, 166, 141,
      IF vcc THEN 16 ELSE 20, 175>>
    \o (IF w = 72 THEN <<173, 48>> ELSE <<>>)

NInit == Len(ListedInit(width, height, external_vcc))

\* the window bytes as the specification lists them
ListedWindow(w, pg) ==
    LET shift == IF w = 64 THEN 32 ELSE IF w = 72 THEN 28 ELSE 0
    IN  <<33, 0 + shift, (w - 1) + shift, 34, 0, pg - 1>>

\* d[k+1 ..] starts with the listed bytes, each a command-mode write
CommandsAt(d, k, bytes) ==
    /\ Len(d) >= k + Len(bytes)
    /\ \A i \in 1..Len(bytes) : d[k + i] = <<"i2c", 128, bytes[i]>>

(* C1: one run of init_display (called by the constructor or by the caller) *)
(* writes exactly the listed initialisation bytes, in order, as command     *)
(* writes, with 0xAD, 0x30 at the end iff width is 72; the only command     *)
(* bytes after them are the six window commands of its show.                *)
C1_InitSequence ==
    [][ /\ (Calls("init_display") /\ ~err') =>
              /\ CommandsAt(BusDelta, 0, ListedInit(width, height, external_vcc))
              /\ CommandsAt(BusDelta, NInit, <<33>>)
              /\ Len(SelectSeq(BusDelta, IsCommand)) = NInit + 6
              /\ NInit = IF width = 72 THEN 27 ELSE 25
        /\ (Constructs /\ ~err') =>
              /\ CommandsAt(BusDelta, 1, ListedInit(width, height, external_vcc))
              /\ CommandsAt(BusDelta, 1 + NInit, <<33>>)
              /\ Len(SelectSeq(BusDelta, IsCommand)) = 1 + NInit + 6
      ]_vars

\* init_display has run to its end on a 72-wide panel with external power
C1_Witness ==
    /\ op = "init_display" /\ ~err
    /\ width = 72 /\ external_vcc
    /\ Len(I2C(trace)) = 2 * (27 + 6 + pages * width) + 1

(* C2: every show starts with the six command bytes 0x21, xpos0, xpos1,     *)
(* 0x22, 0, pages-1, the column window shifted by 32 (width 64), 28 (width  *)
(* 72) or 0; a show cut short by a failing write has written a prefix of    *)
(* them.                                                                    *)
C2_ShowWindow ==
    [][ /\ (Calls("show") /\ ~err') =>
              CommandsAt(BusDelta, 0, ListedWindow(width, pages))
        /\ (Calls("show") /\ err' /\ Len(BusDelta) < 6) =>
              CommandsAt(BusDelta, 0,
                         SubSeq(ListedWindow(width, pages), 1, Len(BusDelta)))
        /\ (Calls("init_display") /\ ~err') =>
              CommandsAt(BusDelta, NInit, ListedWindow(width, pages))
        /\ (Constructs /\ ~err') =>
              CommandsAt(BusDelta, 1 + NInit, ListedWindow(width, pages))
        /\ (Calls("show") /\ ~err' /\ width = 128 /\ height = 64) =>
              CommandsAt(BusDelta, 0, <<33, 0, 127, 34, 0, 7>>)
        /\ (Calls("show") /\ ~err' /\ width = 64 /\ height = 48) =>
              CommandsAt(BusDelta, 0, <<33, 32, 95, 34, 0, 5>>)
        /\ (Calls("show") /\ ~err' /\ width = 72 /\ height = 40) =>
              CommandsAt(BusDelta, 0, <<33, 28, 99, 34, 0, 4>>)
      ]_vars

\* a show called on the constructed 72x40 panel has completed
C2_Witness ==
    /\ op = "show" /\ ~err
    /\ width = 72 /\ height = 40
    /\ Len(I2C(trace)) = (1 + 27 + 6 + 360) + (6 + 360)

\* byte k (from 0) of the pixel buffer: of the view the FrameBuffer draws into
ViewByte(buf, k) == buf[view_index(k) + 1]

\* d[k+1 ..] is one whole show of buf and d ends with it
WholeShowAt(d, k, buf) ==
    /\ Len(d) = k + 6 + pages * width
    /\ \A i \in 1..6 : IsCommand(d[k + i])
    /\ \A p \in 0..(pages - 1) : \A x \in 0..(width - 1) :
          d[k + 6 + p * width + x + 1] = <<"i2c", 64, ViewByte(buf, p * width + x)>>

(* C3: a show that completes writes its six window commands first, then     *)
(* exactly pages x width data bytes and no command after the first data     *)
(* byte; the data bytes are the pixel buffer in storage order, page 0       *)
(* columns 0..width-1, then page 1, and so on.                              *)
C3_ShowStream ==
    [][ /\ (Calls("show") /\ ~err') => WholeShowAt(BusDelta, 0, buffer)
        /\ (Calls("init_display") /\ ~err') => WholeShowAt(BusDelta, NInit, buffer')
        /\ (Constructs /\ ~err') => WholeShowAt(BusDelta, 1 + NInit, buffer')
      ]_vars

\* a show has completed on a buffer that is neither all 0 nor all 1
C3_Witness ==
    /\ op = "show" /\ ~err
    /\ \E i \in 2..Len(buffer) : buffer[i] \notin {0, 255}
    /\ \E i \in 2..Len(buffer) : buffer[i] = 0

(* C4: when the constructor returns, the bus has seen 0xAF, then the init   *)
(* sequence once, then one show of pages x width zero bytes, and nothing    *)
(* else; every byte of the pixel buffer is 0 and power is True.             *)
C4_Construction ==
    (phase = "ready" /\ nops = 0) =>
        /\ I2C(trace) = <<<<"i2c", 128, 175>>>>
                        \o Cmds(ListedInit(width, height, external_vcc))
                        \o Cmds(ListedWindow(width, pages))
                        \o [j \in 1..(pages * width) |-> <<"i2c", 64, 0>>]
        /\ Len(buffer) = pages * width + 1
        /\ \A j \in 1..(pages * width) : buffer[j + 1] = 0
        /\ power = TRUE

\* the constructor has returned a driver for the 128x64 panel with a reset line
C4_Witness ==
    /\ phase = "ready" /\ nops = 0 /\ op = "construct" /\ ~err
    /\ width = 128 /\ height = 64 /\ reset_pin
    /\ Len(I2C(trace)) = 1 + 25 + 6 + 1024

\* how many times the init sequence occurs in the bus writes b
InitCount(b) ==
    LET L == Cmds(ListedInit(width, height, external_vcc))
    IN  Cardinality({i \in 1..(Len(b) - Len(L) + 1) :
                        b[i] = L[1] /\ b[i + 1] = L[2]
                        /\ SubSeq(b, i, i + Len(L) - 1) = L})

\* bus writes of a constructor that returns
ConstructLen == 1 + NInit + 6 + pages * width

\* since the constructor returned, only poweroff and poweron were called,
\* and each wrote its byte
OnlyPowerCalls ==
    LET b == I2C(trace)
    IN  /\ phase = "ready"
        /\ Len(b) = ConstructLen + nops
        /\ \A i \in (ConstructLen + 1)..Len(b) :
              b[i] \in {<<"i2c", 128, 174>>, <<"i2c", 128, 175>>}

(* C5: poweroff writes exactly 0xAE and poweron exactly 0xAF, neither       *)
(* touches the pixel buffer nor sends the init sequence again, power is     *)
(* True after the pair; after construction and any number of poweroff and   *)
(* poweron calls the init sequence is in the bus trace exactly once.        *)
C5_PowerCycle ==
    [][ /\ (Calls("poweroff") /\ ~err') =>
              /\ BusDelta = <<<<"i2c", 128, 174>>>>
              /\ buffer' = buffer
              /\ power' = FALSE
        /\ (Calls("poweron") /\ ~err') =>
              /\ BusDelta = <<<<"i2c", 128, 175>>>>
              /\ buffer' = buffer
              /\ power' = TRUE
        /\ (op = "poweroff" /\ ~err /\ Calls("poweron") /\ ~err') =>
              LET b == I2C(trace')
              IN  SubSeq(b, Len(b) - 1, Len(b))
                     = <<<<"i2c", 128, 174>>, <<"i2c", 128, 175>>>>
        /\ OnlyPowerCalls' =>
              /\ InitCount(I2C(trace')) = 1
              /\ \A j \in 2..Len(buffer') : buffer'[j] = 0
      ]_vars

\* poweroff, then poweron, both completed, right after construction
C5_Witness ==
    /\ op = "poweron" /\ ~err /\ nops = 2 /\ _power
    /\ OnlyPowerCalls
    /\ I2C(trace)[ConstructLen + 1] = <<"i2c", 128, 174>>
    /\ I2C(trace)[ConstructLen + 2] = <<"i2c", 128, 175>>

(* C6: power is True after a poweron that completes and False after a       *)
(* poweroff that completes; show, contrast, invert, fill, pixel set and     *)
(* init_display leave it as it was, and so does a poweron or poweroff       *)
(* whose write failed (reading a pixel is the operator pixel: no step).     *)
C6_PowerState ==
    [][ /\ (Calls("poweron") /\ ~err') => power' = TRUE
        /\ (Calls("poweroff") /\ ~err') => power' = FALSE
        /\ (nops' = nops + 1 /\ op' \notin {"poweron", "poweroff"}) => power' = power
        /\ (nops' = nops + 1 /\ err') => power' = power
      ]_vars

\* a show has run while the display was off and power still reads False
C6_Witness == op = "show" /\ ~err /\ nops = 2 /\ power = FALSE

\* the bus writes of a show of buf that meets no failure
FullShow(buf) ==
    Cmds(ListedWindow(width, pages))
    \o [k \in 1..(pages * width) |-> <<"i2c", 64, ViewByte(buf, k - 1)>>]

\* d is a strict prefix of full
StrictPrefix(d, full) == Len(d) < Len(full) /\ d = SubSeq(full, 1, Len(d))

(* C7: show, init_display and the constructor raise exactly when one of     *)
(* their bus writes failed; what they wrote is then a strict prefix of the  *)
(* failure-free run, nothing follows the failed write, and the pixel buffer *)
(* is as it was when show was called (for init_display: untouched if the    *)
(* failure came before its fill(0), zero-filled after).                     *)
C7_FailureAborts ==
    [][ /\ Calls("show") =>
              /\ err' <=> BusDelta # FullShow(buffer)
              /\ err' => StrictPrefix(BusDelta, FullShow(buffer))
              /\ Delta = BusDelta
              /\ buffer' = buffer
        /\ Calls("init_display") =>
              LET full == Cmds(ListedInit(width, height, external_vcc))
                          \o FullShow(fb_fill(buffer, 0))
              IN  /\ err' <=> BusDelta # full
                  /\ err' => StrictPrefix(BusDelta, full)
                  /\ Delta = BusDelta
                  /\ (err' /\ Len(BusDelta) < NInit) => buffer' = buffer
                  /\ (err' /\ Len(BusDelta) >= NInit) => buffer' = fb_fill(buffer, 0)
        /\ Constructs =>
              LET full == <<<<"i2c", 128, 175>>>>
                          \o Cmds(ListedInit(width, height, external_vcc))
                          \o FullShow(fb_fill(buffer, 0))
              IN  /\ err' <=> BusDelta # full
                  /\ err' => StrictPrefix(BusDelta, full)
                  /\ err' <=> phase' = "dead"
      ]_vars

\* a show of a buffer with pixels set has failed in the middle of its data bytes
C7_Witness ==
    /\ op = "show" /\ err /\ nops = 2
    /\ \E j \in 2..Len(buffer) : buffer[j] # 0
    /\ Len(I2C(trace)) > ConstructLen + 6
    /\ Len(I2C(trace)) < ConstructLen + 6 + pages * width

\* b[i] is a display-on command that is not the last byte of the init tuple
PoweronWrite(b, i) ==
    /\ b[i] = <<"i2c", 128, 175>>
    /\ ~ (/\ i >= 25
          /\ SubSeq(b, i - 24, i)
               = Cmds(SubSeq(ListedInit(width, height, external_vcc), 1, 25)))

(* C8 as stated: every display-on command written by poweron is preceded    *)
(* in the bus trace by a complete init command sequence.                    *)
C8_PoweronAfterInit ==
    LET b == I2C(trace)
    IN  \A i \in 1..Len(b) :
            PoweronWrite(b, i) => InitCount(SubSeq(b, 1, i - 1)) >= 1

(* C8 amended: the first bus write of all is the constructor's own          *)
(* display-on command, sent before init_display; every later display-on     *)
(* command written by poweron is preceded by a complete init sequence.      *)
C8_CallerPoweronAfterInit ==
    LET b == I2C(trace)
    IN  /\ Len(b) >= 1 => (b[1] = <<"i2c", 128, 175>> /\ PoweronWrite(b, 1))
        /\ \A i \in 2..Len(b) :
              PoweronWrite(b, i) => InitCount(SubSeq(b, 1, i - 1)) >= 1

\* a caller's poweron has written its display-on command
C8_Witness ==
    /\ op = "poweron" /\ ~err /\ nops >= 1
    /\ PoweronWrite(I2C(trace), Len(I2C(trace)))

\* the in-bounds pixels
Pixels == (0..(width - 1)) \X (0..(height - 1))

(* C9: pixel(x, y, c) with (x, y) in bounds and c in {0, 1} changes at most  *)
(* bit y mod 8 of byte (y div 8) * width + x of the pixel buffer (the bytes  *)
(* show streams); afterwards pixel(x, y) reads c and every other in-bounds   *)
(* pixel reads what it read before.                                          *)
C9_SetGet ==
    [][ Calls("pixel_set") =>
          LET x == args'[1]
              y == args'[2]
              c == args'[3]
              k == (y \div 8) * width + x
              old == PixelBytes(buffer)
              new == PixelBytes(buffer')
          IN  /\ Len(new) = Len(old)
              /\ \A j \in 1..Len(old) : j # k + 1 => new[j] = old[j]
              /\ \A b \in 0..7 : b # y % 8 => BitAt(new[k + 1], b) = BitAt(old[k + 1], b)
              /\ BitAt(new[k + 1], y % 8) = c
              /\ fb_get(buffer', width, x, y) = c
              /\ \A q \in Pixels \ {<<x, y>>} :
                    fb_get(buffer', width, q[1], q[2]) = fb_get(buffer, width, q[1], q[2])
      ]_vars

\* pixel(1, 9, 0) has cleared one bit of a byte that fill(1) had set to 0xFF
C9_Witness ==
    /\ op = "pixel_set" /\ args = <<1, 9, 0>>
    /\ PixelBytes(buffer) = <<255, 255, 255, 253>>

\* the data bytes among the bus writes d
DataOf(d) == SelectSeq(d, IsData)

\* the last n bus writes of the trace
LastWrites(n) == LET b == I2C(trace) IN SubSeq(b, Len(b) - n + 1, Len(b))

(* C10: the pixel buffer show streams always has pages x width bytes, with   *)
(* width, height and pages as the constructor set them; no bus method        *)
(* changes the buffer's contents, a completed show streams exactly those     *)
(* bytes, and a show right after a show streams the same data bytes.         *)
C10_BufferLength ==
    /\ Len(PixelBytes(buffer)) = pages * width
    /\ [][ /\ Len(PixelBytes(buffer')) = pages' * width'
           /\ config' = config
           /\ pages' = height' \div 8
           /\ (nops' = nops + 1
               /\ op' \in {"show", "contrast", "invert", "poweroff", "poweron"})
                 => buffer' = buffer
           /\ (Calls("show") /\ ~err') =>
                 /\ Len(DataOf(BusDelta)) = pages * width
                 /\ \A j \in 1..(pages * width) :
                       DataOf(BusDelta)[j][3] = PixelBytes(buffer)[j]
           /\ (op = "show" /\ ~err /\ Calls("show") /\ ~err') =>
                 DataOf(BusDelta) = LastWrites(pages * width)
         ]_vars

\* two shows have completed one after the other
C10_Witness ==
    /\ op = "show" /\ ~err /\ nops = 2
    /\ Len(I2C(trace)) = ConstructLen + 2 * (6 + pages * width)
    /\ LastWrites(pages * width)
         = SubSeq(I2C(trace), ConstructLen + 7, ConstructLen + 6 + pages * width)

\* the step is a call of invert that returns, and this is all it does
InvertWrote(byte) ==
    /\ Delta = <<<<"i2c", 128, byte>>>>
    /\ buffer' = buffer
    /\ power' = power

(* C11: invert(flag) writes exactly one command byte equal to 0xA6 OR flag  *)
(* (0xA7 for invert(1), 0xA6 for invert(0)) and leaves the pixel buffer and *)
(* the power state unchanged.                                               *)
C11_InvertOrFlag ==
    [][ (Calls("invert") /\ ~err') => InvertWrote(BitOr(166, args'[1])) ]_vars

(* C11, amended: invert(flag) writes exactly one command byte equal to 0xA6 *)
(* OR the lowest bit of flag (0xA7 for invert(1), 0xA6 for invert(0)) and   *)
(* leaves the pixel buffer and the power state unchanged.                   *)
C11_InvertLowBit ==
    [][ (Calls("invert") /\ ~err') =>
          /\ InvertWrote(166 + (args'[1] % 2))
          /\ args'[1] = 1 => InvertWrote(167)
          /\ args'[1] = 0 => InvertWrote(166)
      ]_vars

\* invert(8) has returned and the byte it wrote is 0xA6
C11_Witness ==
    /\ op = "invert" /\ args = <<8>> /\ ~err
    /\ LastWrites(1) = <<<<"i2c", 128, 166>>>>

\* the width and height are those of a panel
Supported == height % 8 = 0 /\ <<width, height>> \in Panels

(* C12: a construction with an unsupported width and height, in particular  *)
(* a height that is no multiple of 8, fails: no driver is returned.         *)
C12_UnsupportedRejected == phase = "ready" => Supported

\* n data writes of the byte v
DataRun(n, v) == [k \in 1..n |-> <<"i2c", 64, v>>]

(* C13: after fill(0) every in-bounds pixel reads 0 and after fill(1) every *)
(* in-bounds pixel reads 1, whatever the buffer held; a show right after    *)
(* fill(c) streams pages x width data bytes, all 0x00 for c = 0 and all     *)
(* 0xFF for c = 1.                                                          *)
C13_Fill ==
    [][ /\ Calls("fill") =>
              \A q \in Pixels : fb_get(buffer', width, q[1], q[2]) = args'[1]
        /\ (op = "fill" /\ Calls("show") /\ ~err') =>
              DataOf(BusDelta)
                = DataRun(pages * width, IF args[1] = 0 THEN 0 ELSE 255)
      ]_vars

\* fill(1) was called on the zero buffer and the show after it has streamed
\* 0xFF bytes
C13_Witness ==
    /\ op = "show" /\ ~err /\ nops = 2
    /\ \A i \in 2..Len(buffer) : buffer[i] = 255
    /\ LastWrites(pages * width) = DataRun(pages * width, 255)

(* C14: for every value in 0..255, contrast(value) writes exactly two       *)
(* command bytes, 0x81 then value, and changes neither the pixel buffer nor *)
(* the power state.                                                         *)
C14_Contrast ==
    [][ (Calls("contrast") /\ ~err') =>
          /\ args'[1] \in 0..255
          /\ Delta = <<<<"i2c", 128, 129>>, <<"i2c", 128, args'[1]>>>>
          /\ buffer' = buffer
          /\ power' = power
      ]_vars

\* contrast(200) has returned on a driver that is powered off
C14_Witness ==
    /\ op = "contrast" /\ args = <<200>> /\ ~err
    /\ power = FALSE
    /\ LastWrites(2) = <<<<"i2c", 128, 129>>, <<"i2c", 128, 200>>>>

IsPin(e) == e[1] = "pin"

\* the level of the reset line when entry i of t happens: the last level
\* driven before it, and the level `before` t when none was
LineAt(t, i, before) ==
    LET J == {j \in 1..(i - 1) : IsPin(t[j])}
    IN  IF J = {} THEN before ELSE t[CHOOSE j \in J : \A k \in J : k <= j][2]

\* the level of the reset line now, -1 when it was never driven
Line == LineAt(trace, Len(trace) + 1, -1)

\* the first n entries of d drive the reset line, low and later high
PulseBefore(d, n) ==
    /\ \A i \in 1..n : IsPin(d[i])
    /\ \E i \in 1..n : \E j \in (i + 1)..n : d[i][2] = 0 /\ d[j][2] = 1

\* the entries of d before its first bus write, all of them when it has none
BeforeFirstWrite(d) ==
    LET W == {i \in 1..Len(d) : IsI2C(d[i])}
    IN  IF W = {} THEN Len(d) ELSE (CHOOSE i \in W : \A k \in W : i <= k) - 1

(* C15: with a reset line, every poweron, the constructor's included, drives *)
(* the line low and afterwards high before it writes 0xAF, the line is high  *)
(* when 0xAF is written and no bus write happens while the line is low;      *)
(* without a reset line poweron writes only 0xAF.                            *)
C15_ResetPulse ==
    [][ /\ reset_pin =>
              LET d == Delta
                  before == Line
              IN  \A i \in 1..Len(d) : IsI2C(d[i]) => LineAt(d, i, before) = 1
        /\ (reset_pin /\ (Calls("poweron") \/ Constructs)) =>
              /\ PulseBefore(Delta, BeforeFirstWrite(Delta))
              /\ ~err' => BusDelta # <<>>
              /\ BusDelta # <<>> => BusDelta[1] = <<"i2c", 128, 175>>
        /\ (reset_pin /\ Calls("poweron")) => Len(BusDelta) <= 1
        /\ (~reset_pin /\ Calls("poweron")) =>
              Delta = IF err' THEN <<>> ELSE <<<<"i2c", 128, 175>>>>
        /\ ~reset_pin => Delta = BusDelta
      ]_vars

\* a caller's poweron on a driver with a reset line has pulsed it and then
\* written 0xAF
C15_Witness ==
    /\ op = "poweron" /\ ~err /\ reset_pin /\ nops = 2
    /\ SubSeq(trace, Len(trace) - 2, Len(trace))
         = <<<<"pin", 0>>, <<"pin", 1>>, <<"i2c", 128, 175>>>>

\* positions of the display on/off commands among the bus writes b; the
\* byte after 0x81 is a contrast value
OnOffAt(b) ==
    {i \in 1..Len(b) : /\ b[i] \in {<<"i2c", 128, 174>>, <<"i2c", 128, 175>>}
                       /\ (i = 1 \/ b[i - 1] # <<"i2c", 128, 129>>)}

(* C16: whenever no operation is in progress, power equals the display      *)
(* state the last 0xAE or 0xAF written to the bus selected, also after a    *)
(* poweron, poweroff or init_display that a transport failure aborted.      *)
C16_PowerMatchesBus ==
    phase = "ready" =>
        LET b == I2C(trace)
            J == OnOffAt(b)
        IN  /\ J # {}
            /\ power <=> b[CHOOSE i \in J : \A k \in J : k <= i]
                           = <<"i2c", 128, 175>>

\* what happened since the reset line was last driven low
SinceReset ==
    LET J == {j \in 1..Len(trace) : trace[j] = <<"pin", 0>>}
    IN  IF J = {} THEN trace
        ELSE SubSeq(trace, (CHOOSE j \in J : \A k \in J : k <= j) + 1, Len(trace))

(* C17: whenever power is True and no operation is in progress, the         *)
(* controller has received a whole init sequence since its last hardware    *)
(* reset pulse, with a reset line and without.                              *)
C17_InitSinceReset ==
    (phase = "ready" /\ power) => InitCount(I2C(SinceReset)) >= 1

(* C18: the framing byte in front of the pixel data is 0x40 in every state; *)
(* pixel and fill never change it, and a show streams pages x width data    *)
(* bytes that are the bytes behind it, never the framing byte itself.       *)
C18_FramingByte ==
    /\ buffer[1] = 64
    /\ [][ /\ buffer'[1] = 64
           /\ Len(buffer') = pages * width + 1
           /\ (Calls("show") /\ ~err') =>
                 LET d == DataOf(BusDelta)
                 IN  /\ Len(d) = pages * width
                     /\ \A k \in 1..Len(d) : d[k] = <<"i2c", 64, buffer[k + 1]>>
         ]_vars

\* pixel(0, 6, 1) made the first pixel byte 0x40 as well; the show after it
\* has streamed the four pixel bytes
C18_Witness ==
    /\ op = "show" /\ ~err /\ nops = 2
    /\ buffer = <<64, 64, 0, 0, 0>>
    /\ LastWrites(4) = <<<<"i2c", 64, 64>>, <<"i2c", 64, 0>>,
                         <<"i2c", 64, 0>>, <<"i2c", 64, 0>>>>

====
